---- MODULE Spec2Model ----
(***************************************************************************)
(* Model of the cloudflare-ddns reconciler (src/main.rs).                  *)
(*                                                                         *)
(* The program reads a configuration, and for every configured record, in  *)
(* order, asks an echo service for the public address, lists the provider  *)
(* records of that (name, type), and creates or updates a record when the  *)
(* first listed record does not carry that address.  Every `.await?` of    *)
(* main is one step of the model: the call is made, the other side answers *)
(* and the code up to the next call runs.                                  *)
(*                                                                         *)
(* Rust's Option<T> is modelled as a sequence: None is << >>, Some(x) is   *)
(* <<x>>.  Strings that the code trims are sequences of characters.        *)
(***************************************************************************)
EXTENDS Integers, Sequences, FiniteSets, TLC

----------------------------------------------------------------------------
(* Bounds of the model *)

MaxRecords == 2
MaxZone == 2
MaxRuns == 2

----------------------------------------------------------------------------
(* Option<T> *)

None == << >>
Some(x) == <<x>>
IsSome(o) == o # None
Unwrap(o) == o[1]

----------------------------------------------------------------------------
(* Values *)

Names == {"home.example.net"}
Families == {"A", "AAAA"}
\* record types a configuration file may carry: the field is a free string
ConfigTypes == Families \cup {"TXT"}

\* whitespace characters of a response body
SP == "SP"
CR == "CR"
LF == "LF"
Whitespace == {SP, CR, LF}

\* address texts, as character sequences
Ips == {<<"7">>, <<"9">>}

\* CloudflareConfig: the secret and the zone of the configuration
api_token == "s3cr3t"
zone_id == "zone-1"

\* ttl: Some(1), "Auto TTL"
AutoTtl == 1
\* the ttl and proxied a record at the provider may carry before the program
\* touches it: the ones the program writes, or ones its owner has tuned
Tunings == {[ttl |-> AutoTtl, proxied |-> FALSE], [ttl |-> 300, proxied |-> TRUE]}

\* struct DnsRecord
DnsRecord(id, name, type, content, ttl, proxied) ==
    [id |-> id, name |-> name, record_type |-> type, content |-> content,
     ttl |-> ttl, proxied |-> proxied]

\* struct ApiError
ApiError(code, message) == [code |-> code, message |-> message]

\* anyhow::Result<T>: Ok(val) or Err(err)
Ok(v) == [ok |-> TRUE, val |-> v, err |-> ""]
Err(e) == [ok |-> FALSE, val |-> << >>, err |-> e]

----------------------------------------------------------------------------
(* The public-IP probe: get_public_ip *)

RECURSIVE TrimStart(_)
TrimStart(s) ==
    IF s = << >> THEN s
    ELSE IF Head(s) \in Whitespace THEN TrimStart(Tail(s)) ELSE s

RECURSIVE TrimEnd(_)
TrimEnd(s) ==
    IF s = << >> THEN s
    ELSE IF s[Len(s)] \in Whitespace THEN TrimEnd(SubSeq(s, 1, Len(s) - 1)) ELSE s

\* Trim that strips the end of the text only
TrimEndOnly(s) == TrimEnd(s)

\* str::trim
Trim(s) == TrimEnd(TrimStart(s))

\* ProbeUrl with a default endpoint for the types it does not know
ProbeUrlAnyType(ip_type) ==
    CASE ip_type = "AAAA" -> Some("https://ifconfig.me/ip")
      [] OTHER -> Some("https://ipinfo.io/ip")

\* the endpoint get_public_ip asks, per family
ProbeUrl(ip_type) ==
    CASE ip_type = "A" -> Some("https://ipinfo.io/ip")
      [] ip_type = "AAAA" -> Some("https://ifconfig.me/ip")
      [] OTHER -> None

\* the family of the address an endpoint echoes
EchoFamily(url) == IF url = "https://ipinfo.io/ip" THEN "A" ELSE "AAAA"

\* what the echo service may answer when the host's address is ip: the
\* request fails, or a body comes back, padded or empty
Bodies(ip) ==
    {ip, <<SP, SP>> \o ip \o <<CR, LF>>, <<SP, LF>>}

ProbeReplies(ip) ==
    {[transport |-> TRUE, body |-> << >>]}
        \cup {[transport |-> FALSE, body |-> b] : b \in Bodies(ip)}

\* get_public_ip, given the answer of the echo service (unused when the
\* type has no endpoint)
GetPublicIp(ip_type, resp) ==
    IF ProbeUrl(ip_type) = None THEN Err("UnsupportedFamily")
    ELSE IF resp.transport THEN Err("ProbeTransportError")
    ELSE IF Trim(resp.body) = << >> THEN Err("EmptyResponse")
    ELSE Ok(Trim(resp.body))

----------------------------------------------------------------------------
(* The provider client: CloudflareClient *)

\* RequestBody with the record proxied
RequestBodyProxied(name, record_type, content) ==
    DnsRecord(None, name, record_type, content, Some(AutoTtl), Some(TRUE))

\* the body create_dns_record and update_dns_record send
RequestBody(name, record_type, content) ==
    DnsRecord(None, name, record_type, content, Some(AutoTtl), Some(FALSE))

\* the decimal digits of a number, as {} and {:?} write it
RECURSIVE Digits(_)
Digits(n) ==
    LET d == <<"0", "1", "2", "3", "4", "5", "6", "7", "8", "9">>[(n % 10) + 1] IN
    IF n < 10 THEN <<d>> ELSE Append(Digits(n \div 10), d)

\* serde_json's null
Null == "null"

\* serde's serialization of an Option field: None is written as null
JsonOption(o) == IF IsSome(o) THEN Unwrap(o) ELSE Null

\* .json(&record): every field of the struct becomes a key of the object,
\* record_type under the name "type"
ToJson(record) ==
    [id |-> JsonOption(record.id), name |-> record.name, type |-> record.record_type,
     content |-> record.content, ttl |-> JsonOption(record.ttl),
     proxied |-> JsonOption(record.proxied)]

\* the url of the zone's records, and of one record
RecordsUrl == <<"https://api.cloudflare.com/client/v4/zones/", zone_id, "/dns_records">>
RecordUrl(record_id) == RecordsUrl \o <<"/">> \o Digits(record_id)

\* .header("Authorization", format!("Bearer {}", self.api_token))
Authorization == <<"Bearer ", api_token>>

\* a request as it leaves the program: the reqwest client it is sent with,
\* the method, the url, the query, the headers and the body
Request(client, method, url, query, headers, body) ==
    [client |-> client, method |-> method, url |-> url, query |-> query,
     headers |-> headers, body |-> body]

NoRequest == Request(0, "", << >>, << >>, << >>, None)

\* the request of get_public_ip, sent with the client it has just built
ProbeRequest(client, url) == Request(client, "GET", <<url>>, << >>, << >>, None)

\* ListRequest with the token passed as a query parameter as well
ListRequestTokenInQuery(name, record_type) ==
    Request(1, "GET", RecordsUrl, <<name, record_type, api_token>>,
            [Authorization |-> Authorization], None)

\* the request of get_dns_records
ListRequest(name, record_type) ==
    Request(1, "GET", RecordsUrl, <<name, record_type>>,
            [Authorization |-> Authorization], None)

\* the request of create_dns_record
CreateRequest(record) ==
    Request(1, "POST", RecordsUrl, << >>,
            [Authorization |-> Authorization, ContentType |-> <<"application/json">>],
            Some(ToJson(record)))

\* the request of update_dns_record
UpdateRequest(record_id, record) ==
    Request(1, "PATCH", RecordUrl(record_id), << >>,
            [Authorization |-> Authorization, ContentType |-> <<"application/json">>],
            Some(ToJson(record)))

\* get_dns_records, given the decoded reply (or the failure to get one)
GetDnsRecords(resp) ==
    IF resp.transport THEN Err("ProviderTransportError")
    ELSE IF ~resp.success /\ IsSome(resp.errors) THEN Err("ProviderApiError")
    ELSE Ok(IF IsSome(resp.result) THEN Unwrap(resp.result) ELSE << >>)

\* the reply handling shared by create_dns_record and update_dns_record
SingleRecordResult(resp) ==
    IF resp.transport THEN Err("ProviderTransportError")
    ELSE IF ~resp.success /\ IsSome(resp.errors) THEN Err("ProviderApiError")
    ELSE IF IsSome(resp.result) THEN Ok(Unwrap(resp.result))
    ELSE Err("MissingResult")

CreateDnsRecord(resp) == SingleRecordResult(resp)
UpdateDnsRecord(resp) == SingleRecordResult(resp)

----------------------------------------------------------------------------
(* The provider: the zone behind the REST endpoint *)

\* GET dns_records?name=..&type=..: the records of the zone that match, in
\* the zone's order
Matching(z, name, record_type) ==
    SelectSeq(z, LAMBDA r : r.name = name /\ r.record_type = record_type)

RECURSIVE MaxId(_)
MaxId(z) ==
    IF z = << >> THEN 0
    ELSE LET m == MaxId(Tail(z))
             h == IF IsSome(Head(z).id) THEN Unwrap(Head(z).id) ELSE 0
         IN IF h > m THEN h ELSE m

\* POST dns_records: the provider stores the body under a fresh id
ProviderCreate(z, body) ==
    Append(z, [body EXCEPT !.id = Some(MaxId(z) + 1)])

\* PATCH dns_records/{id}: the provider overwrites the record of that id
\* with the fields of the body
ProviderPatch(z, record_id, body) ==
    [i \in DOMAIN z |->
        IF z[i].id = Some(record_id) THEN [body EXCEPT !.id = z[i].id] ELSE z[i]]

\* the errors field of a reply: absent, empty, or carrying an error
ErrorShapes == {None, Some(<< >>), Some(<<ApiError(9103, "Unauthorized")>>)}

\* a listing that leaves the ids out (DnsRecord.id is an Option)
WithoutIds(records) == [i \in DOMAIN records |-> [records[i] EXCEPT !.id = None]]

\* replies to the list request: none (transport), a success envelope that
\* carries the matching records, with or without their ids (result may be
\* absent when there are none), or a failure envelope with no result and any
\* shape of errors
ListReplies(matching) ==
    {[transport |-> TRUE, success |-> FALSE, errors |-> None, result |-> None]}
    \cup {[transport |-> FALSE, success |-> TRUE, errors |-> Some(<< >>), result |-> r] :
            r \in {Some(matching), Some(WithoutIds(matching))}
                    \cup (IF matching = << >> THEN {None} ELSE {})}
    \cup {[transport |-> FALSE, success |-> FALSE, errors |-> e, result |-> None] :
            e \in ErrorShapes}

\* replies to create and update, rec being the record the provider would
\* report: none (transport), a success envelope with or without the record,
\* or a failure envelope of any shape
SingleReplies(rec) ==
    {[transport |-> TRUE, success |-> FALSE, errors |-> None, result |-> None]}
    \cup {[transport |-> FALSE, success |-> TRUE, errors |-> Some(<< >>), result |-> r] :
            r \in {None, Some(rec)}}
    \cup {[transport |-> FALSE, success |-> FALSE, errors |-> e, result |-> r] :
            e \in ErrorShapes, r \in {None, Some(rec)}}

\* the provider applies a mutation exactly when it answers success
Applied(resp) == ~resp.transport /\ resp.success

----------------------------------------------------------------------------
(* State *)

VARIABLES
    config,            \* Config.records, as parsed from config.yml
    zone,              \* the provider's records of the zone, in its order
    publicIp,          \* the host's public address, per family
    run,               \* which invocation of the program this is
    pc,                \* where main is: the call it makes next, or how it ended
    idx,               \* position of record_config in config.records
    current_ip,        \* main's current_ip
    existing_records,  \* main's existing_records
    calls,             \* the calls this run has made, oldest first
    reply,             \* what the last call was answered
    error,             \* the error main returned with
    nclients,          \* reqwest clients created by this run
    zone0,             \* the zone as it was when this run started
    prev,              \* how the previous run ended, and the addresses it saw
    request,           \* the last request the program sent
    out                \* the lines the last step wrote to stdout and stderr

vars == <<config, zone, publicIp, run, pc, idx, current_ip, existing_records,
          calls, reply, error, nclients, zone0, prev, request, out>>

\* struct RecordConfig
RecordConfig(name, record_type) == [name |-> name, record_type |-> record_type]

RecordConfigs == {RecordConfig(n, t) : n \in Names, t \in ConfigTypes}

\* sequences over S of length at most n
RECURSIVE SeqsUpTo(_, _)
SeqsUpTo(S, n) ==
    IF n = 0 THEN {<< >>}
    ELSE LET shorter == SeqsUpTo(S, n - 1)
         IN shorter \cup {Append(q, x) : q \in {r \in shorter : Len(r) = n - 1}, x \in S}

\* a record the zone may hold before the first run, at position i: the
\* provider numbers its records
ZoneRecords(i) ==
    {DnsRecord(Some(i), n, t, c, Some(u.ttl), Some(u.proxied)) :
        n \in Names, t \in Families, c \in Ips, u \in Tunings}

RECURSIVE ZonesOfLen(_)
ZonesOfLen(n) ==
    IF n = 0 THEN {<< >>}
    ELSE {Append(z, r) : z \in ZonesOfLen(n - 1), r \in ZoneRecords(n)}

InitialZones == UNION {ZonesOfLen(n) : n \in 0..MaxZone}

\* the host's addresses when the program is first run
InitialIp == [f \in Families |-> IF f = "A" THEN <<"7">> ELSE <<"9">>]

NoReply == [transport |-> FALSE, success |-> TRUE, errors |-> None, result |-> None]
NoPrev == [outcome |-> "none", publicIp |-> [f \in Families |-> << >>]]

\* one entry of calls: the operation, the record_config it was made for, the
\* record id and address it carried (update, create), the address it returned
\* (probe) or the content of the first record it returned (list), and whether
\* it returned Ok
Call(op, i, rc, id, content, first, ok) ==
    [op |-> op, idx |-> i, name |-> rc.name, record_type |-> rc.record_type,
     id |-> id, content |-> content, first |-> first, ok |-> ok]

Mutating(c) == c.op \in {"create", "update"}

Init ==
    /\ config \in SeqsUpTo(RecordConfigs, MaxRecords)
    /\ zone \in InitialZones
    /\ publicIp = InitialIp
    /\ run = 1
    /\ pc = "start"
    /\ idx = 0
    /\ current_ip = << >>
    /\ existing_records = << >>
    /\ calls = << >>
    /\ reply = NoReply
    /\ error = None
    /\ nclients = 0
    /\ zone0 = zone
    /\ prev = NoPrev
    /\ request = NoRequest
    /\ out = << >>

----------------------------------------------------------------------------
(* What the program prints: each line is the sequence of its pieces *)

\* {:?} of a Vec<ApiError>
RECURSIVE DebugErrors(_)
DebugErrors(errors) ==
    IF errors = << >> THEN << >>
    ELSE <<"ApiError { code: ">> \o Digits(Head(errors).code)
            \o <<", message: ", Head(errors).message, " }">>
            \o DebugErrors(Tail(errors))

ProcessingLine(rc) == <<"Processing ", rc.record_type, " record for ", rc.name>>
CurrentIpLine(ip_type, ip) == <<"Current public IP (", ip_type, "): ">> \o ip
MismatchLine(content, ip) ==
    <<"IP mismatch! Updating record from ">> \o content \o <<" to ">> \o ip
UpdatedLine == <<"Record updated successfully">>
UpToDateLine == <<"Record already up to date">>
NotFoundLine == <<"Record not found. Creating new record...">>
CreatedLine == <<"Record created successfully">>
AllDoneLine == <<"All records processed successfully!">>

\* the message of Option::unwrap on None
PanicLine == <<"called Option::unwrap() on a None value">>

\* "Error: {:?}" of the error main returns: e is the error, req the request
\* that failed, resp its reply, ip_type the argument of get_public_ip
ErrorLine(e, req, resp, ip_type) ==
    <<"Error: ">> \o
    CASE e = "UnsupportedFamily" -> <<"Unsupported record type: ", ip_type>>
      [] e = "EmptyResponse" -> <<"Empty IP response">>
      [] e = "ProviderApiError" -> <<"API errors: ">> \o DebugErrors(Unwrap(resp.errors))
      [] e = "MissingResult" -> <<"No result returned">>
      [] OTHER -> <<"error sending request for url (">> \o req.url \o req.query \o <<")">>

----------------------------------------------------------------------------
(* main *)

Ended == pc \in {"done", "failed", "panicked"}

\* Continue with the update branch falling through into the create branch
ContinueFallsThrough ==
    /\ error' = None
    /\ IF pc = "update"
       THEN pc' = "create" /\ UNCHANGED <<idx, current_ip, existing_records>>
       ELSE /\ current_ip' = << >>
            /\ existing_records' = << >>
            /\ IF idx < Len(config)
               THEN idx' = idx + 1 /\ pc' = "probe"
               ELSE idx' = idx /\ pc' = "done"

\* Continue with the probe hoisted out of the loop: the next record_config
\* is listed with the address probed for the first one
ContinueSkipsProbe ==
    /\ error' = None
    /\ existing_records' = << >>
    /\ IF idx < Len(config)
       THEN idx' = idx + 1 /\ pc' = "list" /\ current_ip' = publicIp["A"]
       ELSE idx' = idx /\ pc' = "done" /\ current_ip' = << >>

\* the end of the loop body: its locals are dropped, and the loop goes on to
\* the next record_config or main returns Ok(())
Continue ==
    /\ error' = None
    /\ current_ip' = << >>
    /\ existing_records' = << >>
    /\ IF idx < Len(config)
       THEN idx' = idx + 1 /\ pc' = "probe"
       ELSE idx' = idx /\ pc' = "done"

\* Fail with the error swallowed: main goes on to its next statement
FailIgnored(e) ==
    /\ error' = Some(e)
    /\ existing_records' = << >>
    /\ current_ip' = IF pc = "list" THEN current_ip ELSE << >>
    /\ CASE pc = "list" -> pc' = "create" /\ idx' = idx
         [] pc = "probe" \/ idx = Len(config) -> pc' = "done" /\ idx' = idx
         [] OTHER -> pc' = "probe" /\ idx' = idx + 1

\* Fail with the failed call made again
FailRetries(e) ==
    /\ pc' = pc
    /\ error' = Some(e)
    /\ UNCHANGED <<idx, current_ip, existing_records>>

\* `?`: main returns the error, dropping its locals
Fail(e) ==
    /\ pc' = "failed"
    /\ error' = Some(e)
    /\ idx' = idx
    /\ current_ip' = << >>
    /\ existing_records' = << >>

\* what main prints on its way to the next call: the head of the next
\* iteration of the loop, or the last line of the run
LoopHead ==
    IF pc' = "probe" THEN <<ProcessingLine(config[idx'])>>
    ELSE IF pc' = "done" THEN <<AllDoneLine>>
    ELSE << >>

\* main up to the first call: the configuration is loaded, the client built
StartRun ==
    /\ pc = "start"
    /\ nclients' = 1
    /\ IF config = << >>
       THEN pc' = "done" /\ idx' = 0
       ELSE pc' = "probe" /\ idx' = 1
    /\ out' = LoopHead
    /\ UNCHANGED <<config, zone, publicIp, run, current_ip, existing_records,
                   calls, reply, error, zone0, prev, request>>

\* ProbeFamily with the family fixed
ProbeFamilyAlwaysA(rc) == "A"

\* the argument main passes to get_public_ip
ProbeFamily(rc) == rc.record_type

\* let current_ip = get_public_ip(&record_config.record_type).await?;
\* (a type without an endpoint is refused before any request is sent)
Probe ==
    /\ pc = "probe"
    /\ LET rc == config[idx]
           ip_type == ProbeFamily(rc)
       IN
       /\ nclients' = nclients + 1
       /\ request' = IF ProbeUrl(ip_type) = None THEN request
                     ELSE ProbeRequest(nclients', Unwrap(ProbeUrl(ip_type)))
       /\ \E resp \in IF ProbeUrl(ip_type) = None
                      THEN {[transport |-> TRUE, body |-> << >>]}
                      ELSE ProbeReplies(publicIp[EchoFamily(Unwrap(ProbeUrl(ip_type)))]) :
            LET r == GetPublicIp(ip_type, resp) IN
            /\ reply' = resp
            /\ out' = IF r.ok THEN <<CurrentIpLine(rc.record_type, r.val)>>
                      ELSE <<ErrorLine(r.err, request', resp, ip_type)>>
            /\ calls' = Append(calls,
                    [Call("probe", idx, rc, None, r.val, None, r.ok)
                        EXCEPT !.record_type = ip_type])
            /\ IF r.ok
               THEN /\ current_ip' = r.val
                    /\ pc' = "list"
                    /\ UNCHANGED <<idx, error, existing_records>>
               ELSE Fail(r.err)
    /\ UNCHANGED <<config, zone, publicIp, run, zone0, prev>>

\* First taking the last of the records instead
FirstIsLast(records) == records[Len(records)]

\* existing_records.first(), of a sequence that is not empty
First(records) == records[1]

\* Decide without the comparison of content and address
DecideAlwaysWrites(records, ip) ==
    IF records # << >>
    THEN IF IsSome(records[1].id) THEN "update" ELSE "panicked"
    ELSE "create"

\* the branch main takes on existing_records.first()
Decide(records, ip) ==
    IF records # << >>
    THEN IF First(records).content # ip
         THEN IF IsSome(First(records).id) THEN "update" ELSE "panicked"
         ELSE "uptodate"
    ELSE "create"

\* let existing_records = client.get_dns_records(..).await?; and the branch
List ==
    /\ pc = "list"
    /\ LET rc == config[idx] IN
       \E resp \in ListReplies(Matching(zone, rc.name, rc.record_type)) :
            LET r == GetDnsRecords(resp)
                first == IF r.ok /\ r.val # << >> THEN Some(r.val[1].content) ELSE None
                d == IF r.ok THEN Decide(r.val, current_ip) ELSE "failed"
            IN
            /\ reply' = resp
            /\ request' = ListRequest(rc.name, rc.record_type)
            /\ calls' = Append(calls, Call("list", idx, rc, None, << >>, first, r.ok))
            /\ IF r.ok
               THEN CASE d = "uptodate" -> Continue
                      [] d = "panicked" ->
                            /\ pc' = "panicked"
                            /\ current_ip' = << >>
                            /\ existing_records' = << >>
                            /\ UNCHANGED <<idx, error>>
                      [] OTHER ->
                            /\ pc' = d
                            /\ existing_records' = r.val
                            /\ UNCHANGED <<idx, error, current_ip>>
               ELSE Fail(r.err)
            /\ out' = CASE d = "failed" -> <<ErrorLine(r.err, request', resp, "")>>
                        [] d = "uptodate" -> <<UpToDateLine>> \o LoopHead
                        [] d = "update" -> <<MismatchLine(First(r.val).content, current_ip)>>
                        [] d = "panicked" ->
                            <<MismatchLine(First(r.val).content, current_ip), PanicLine>>
                        [] OTHER -> <<NotFoundLine>>
    /\ UNCHANGED <<config, zone, publicIp, run, nclients, zone0, prev>>

HasId(z, record_id) == \E i \in DOMAIN z : z[i].id = Some(record_id)

\* client.update_dns_record(existing.id.as_ref().unwrap(), ..).await?;
Update ==
    /\ pc = "update"
    /\ LET rc == config[idx]
           record_id == Unwrap(First(existing_records).id)
           body == RequestBody(rc.name, rc.record_type, current_ip)
       IN
       \E resp \in {x \in SingleReplies([body EXCEPT !.id = Some(record_id)]) :
                        Applied(x) => HasId(zone, record_id)} :
            LET r == UpdateDnsRecord(resp) IN
            /\ zone' = IF Applied(resp) THEN ProviderPatch(zone, record_id, body) ELSE zone
            /\ reply' = resp
            /\ request' = UpdateRequest(record_id, body)
            /\ calls' = Append(calls,
                    Call("update", idx, rc, Some(record_id), body.content, None, r.ok))
            /\ IF r.ok THEN Continue ELSE Fail(r.err)
            /\ out' = IF r.ok THEN <<UpdatedLine>> \o LoopHead
                      ELSE <<ErrorLine(r.err, request', resp, "")>>
    /\ UNCHANGED <<config, publicIp, run, nclients, zone0, prev>>

\* client.create_dns_record(..).await?;
Create ==
    /\ pc = "create"
    /\ LET rc == config[idx]
           body == RequestBody(rc.name, rc.record_type, current_ip)
       IN
       \E resp \in SingleReplies([body EXCEPT !.id = Some(MaxId(zone) + 1)]) :
            LET r == CreateDnsRecord(resp) IN
            /\ zone' = IF Applied(resp) THEN ProviderCreate(zone, body) ELSE zone
            /\ reply' = resp
            /\ request' = CreateRequest(body)
            /\ calls' = Append(calls, Call("create", idx, rc, None, body.content, None, r.ok))
            /\ IF r.ok THEN Continue ELSE Fail(r.err)
            /\ out' = IF r.ok THEN <<CreatedLine>> \o LoopHead
                      ELSE <<ErrorLine(r.err, request', resp, "")>>
    /\ UNCHANGED <<config, publicIp, run, nclients, zone0, prev>>

\* after a run that exited with status 0 the program is started again; the
\* host's address may have changed in between
Rerun ==
    /\ pc = "done"
    /\ run < MaxRuns
    /\ run' = run + 1
    /\ publicIp' \in [Families -> Ips]
    /\ prev' = [outcome |-> pc, publicIp |-> publicIp]
    /\ pc' = "start"
    /\ idx' = 0
    /\ current_ip' = << >>
    /\ existing_records' = << >>
    /\ calls' = << >>
    /\ reply' = NoReply
    /\ error' = None
    /\ nclients' = 0
    /\ zone0' = zone
    /\ request' = NoRequest
    /\ out' = << >>
    /\ UNCHANGED <<config, zone>>

\* one run of the program
Next == StartRun \/ Probe \/ List \/ Update \/ Create

Spec == Init /\ [][Next]_vars

\* the program run again and again
NextRuns == Next \/ Rerun

SpecRuns == Init /\ [][NextRuns]_vars

\* one run in which main is not suspended for ever: every call it awaits
\* returns, with a reply or with an error
SpecFair == Spec /\ WF_vars(Next)

----------------------------------------------------------------------------
(* Vocabulary of the properties *)

CallIdx == DOMAIN calls
Last(q) == q[Len(q)]

\* the calls of one kind made for the k-th record_config
CallsFor(k, ops) == {i \in CallIdx : calls[i].idx = k /\ calls[i].op \in ops}
MutatingOps == {"create", "update"}
MutatingCalls == {i \in CallIdx : Mutating(calls[i])}

\* the k-th record_config has had its probe
Processed(k) == pc # "start" /\ (k < idx \/ (k = idx /\ pc # "probe"))

\* the list call i returned a record first whose content is the address the
\* probe of the same record_config returned
UpToDate(i) ==
    /\ calls[i].op = "list"
    /\ calls[i].ok
    /\ IsSome(calls[i].first)
    /\ \E j \in CallsFor(calls[i].idx, {"probe"}) :
            calls[j].ok /\ Unwrap(calls[i].first) = calls[j].content

\* the records of the zone z under the name and type of the k-th record_config
RecordsOf(z, k) == Matching(z, config[k].name, config[k].record_type)

----------------------------------------------------------------------------
(* C1 *)

NoMutationWhenUpToDate ==
    \A i \in CallIdx : UpToDate(i) => CallsFor(calls[i].idx, MutatingOps) = {}

ListStepUpToDate ==
    /\ pc = "list"
    /\ calls' # calls
    /\ UpToDate(Len(calls))'

\* C1: when list_records returns a non-empty sequence whose first element
\* already carries the probed address, no create_record or update_record is
\* made for that record_config, and the step leaves the zone as it was.
MinimalMutation ==
    /\ []NoMutationWhenUpToDate
    /\ [][ListStepUpToDate => (zone' = zone /\ pc' \in {"probe", "done"})]_vars

MinimalMutationWitness ==
    /\ pc = "done"
    /\ \E i \in CallIdx : UpToDate(i)

----------------------------------------------------------------------------
(* C2 *)

\* this run follows a run that exited with status 0, and the host's
\* addresses are the ones that run saw
SecondRunSameIp ==
    /\ prev.outcome = "done"
    /\ prev.publicIp = publicIp

\* C2: a run that follows a successful run, with the probe returning the
\* same addresses and the zone touched by nobody else, makes no
\* create_record and no update_record call.
Idempotence == SecondRunSameIp => MutatingCalls = {}

----------------------------------------------------------------------------
(* C3 *)

\* C3: when a call made for the k-th record_config fails, it is the last call
\* of the run, the run ends in failure at k, and no call is ever made for a
\* record_config after k.
OrderedHalt ==
    /\ \A i \in CallIdx :
            ~calls[i].ok =>
                /\ i = Len(calls)
                /\ pc = "failed"
                /\ IsSome(error)
                /\ idx = calls[i].idx
    /\ pc \in {"failed", "panicked"} => \A i \in CallIdx : calls[i].idx <= idx

OrderedHaltWitness ==
    /\ pc = "failed"
    /\ idx < Len(config)
    /\ ~Last(calls).ok
    /\ Last(calls).op = "update"

----------------------------------------------------------------------------
(* C4 *)

\* the last call was a list request and the provider answered it with
\* success == false
ListRepliedFailure ==
    /\ calls # << >>
    /\ Last(calls).op = "list"
    /\ ~reply.transport
    /\ ~reply.success

\* C4: list_records fails with ProviderApiError whenever the reply has
\* success == false, whatever the errors field is, so the run fails there and
\* goes on to no create_record or update_record.
ListFailsOnFailureReply ==
    ListRepliedFailure =>
        /\ ~Last(calls).ok
        /\ pc = "failed"
        /\ error = Some("ProviderApiError")

----------------------------------------------------------------------------
(* C5 *)

\* C5: when some record_config, at any position, has a type other than A and
\* AAAA, the run makes no create_record or update_record call.
UnsupportedTypeBeforeMutation ==
    (\E k \in DOMAIN config : config[k].record_type \notin Families)
        => MutatingCalls = {}

\* C5 as amended: a record_config at position k with a type other than A and
\* AAAA fails the run at its probe with UnsupportedFamily, so no
\* create_record or update_record call is made for position k or any later
\* one; the record_configs before k have been reconciled by then.
UnsupportedTypeHalts ==
    \A k \in DOMAIN config :
        config[k].record_type \notin Families =>
            /\ \A i \in MutatingCalls : calls[i].idx < k
            /\ \A i \in CallIdx : calls[i].idx <= k
            /\ CallsFor(k, {"list"}) = {}
            /\ Processed(k) =>
                    /\ pc = "failed"
                    /\ error = Some("UnsupportedFamily")
                    /\ idx = k

UnsupportedTypeHaltsWitness ==
    /\ pc = "failed"
    /\ error = Some("UnsupportedFamily")
    /\ idx = 2
    /\ CallsFor(1, MutatingOps) # {}

----------------------------------------------------------------------------
(* C6 *)

\* C6: for one record_config in one run, create_record and update_record
\* together are called at most once.
CreateUpdateExclusive ==
    \A i, j \in MutatingCalls : calls[i].idx = calls[j].idx => i = j

CreateUpdateExclusiveWitness ==
    /\ pc = "done"
    /\ Len(config) = 2
    /\ CallsFor(1, {"update"}) # {}
    /\ CallsFor(2, {"create"}) # {}

----------------------------------------------------------------------------
(* C7 *)

\* C7: every record_config that has been processed had exactly one probe,
\* made with its own type as the family, and the address any create_record or
\* update_record for it carries is the one that probe returned, the host's
\* address of that family.
FamilyRouting ==
    /\ \A k \in DOMAIN config : Processed(k) => CallsFor(k, {"probe"}) # {}
    /\ \A j \in CallIdx :
            LET c == calls[j]
                rc == config[c.idx]
            IN
            /\ c.op = "probe" =>
                    /\ c.record_type = rc.record_type
                    /\ Processed(c.idx)
                    /\ \A i \in 1..(j - 1) : calls[i].idx # c.idx
            /\ Mutating(c) =>
                    /\ c.record_type = rc.record_type
                    /\ c.content = publicIp[rc.record_type]
                    /\ \E i \in 1..(j - 1) :
                            /\ calls[i].op = "probe"
                            /\ calls[i].idx = c.idx
                            /\ calls[i].ok
                            /\ calls[i].content = c.content

FamilyRoutingWitness ==
    /\ pc = "done"
    /\ Len(config) = 2
    /\ config[1].record_type = "A"
    /\ config[2].record_type = "AAAA"
    /\ publicIp["A"] # publicIp["AAAA"]
    /\ CallsFor(1, MutatingOps) # {}
    /\ CallsFor(2, MutatingOps) # {}

----------------------------------------------------------------------------
(* C8 *)

\* the place of an operation in the protocol of one record_config
Rank(op) == CASE op = "probe" -> 1 [] op = "list" -> 2 [] OTHER -> 3

\* C8: the calls of a run are made one after the other, record_config by
\* record_config in configuration order, and for one record_config the probe
\* comes first, then the list, then a create or update, which is made only
\* after a probe and a list that both succeeded.
Ordering ==
    /\ calls # << >> => calls[1].idx = 1 /\ calls[1].op = "probe"
    /\ \A j \in 2..Len(calls) :
            LET a == calls[j - 1]
                b == calls[j]
            IN
            CASE b.op = "probe" -> b.idx = a.idx + 1
              [] b.op = "list" -> a.op = "probe" /\ a.idx = b.idx
              [] OTHER ->
                    /\ a.op = "list" /\ a.idx = b.idx /\ a.ok
                    /\ j > 2
                    /\ calls[j - 2].op = "probe"
                    /\ calls[j - 2].idx = b.idx
                    /\ calls[j - 2].ok

OrderingWitness ==
    /\ Len(calls) = 6
    /\ calls[3].op = "create"
    /\ calls[6].op = "update"

----------------------------------------------------------------------------
(* C9 *)

\* the address the run observed for the k-th record_config
Observed(k) == {calls[i].content : i \in {j \in CallsFor(k, {"probe"}) : calls[j].ok}}

\* when the run started, no name and type of the configuration had more than
\* one record in the zone
NoDuplicatesAtStart == \A k \in DOMAIN config : Len(RecordsOf(zone0, k)) <= 1

\* C9: after a run that completed successfully, every record_config has
\* exactly one record of its name and type in the zone, and the content of
\* that record is the address observed for it (stated for the zones that had no
\* duplicates when the run started).
ReconciledAfterSuccess ==
    (pc = "done" /\ NoDuplicatesAtStart) =>
        \A k \in DOMAIN config :
            /\ Len(RecordsOf(zone, k)) = 1
            /\ RecordsOf(zone, k)[1].content \in Observed(k)

----------------------------------------------------------------------------
(* C10 *)

\* this run follows a run that exited with status 0, and the host's address
\* of every family has changed since
SecondRunNewIp ==
    /\ prev.outcome = "done"
    /\ \A f \in Families : prev.publicIp[f] # publicIp[f]

\* no two record_configs name the same name and type
DistinctConfig ==
    \A k, l \in DOMAIN config : config[k] = config[l] => k = l

\* C10: a run that follows a successful run and a change of the public IP
\* makes, when it completes, exactly one update_record call for every
\* record_config and no create_record call (stated for configurations without
\* repeated record_configs).
OneUpdatePerRecordAfterChange ==
    (SecondRunNewIp /\ DistinctConfig /\ pc = "done") =>
        /\ \A k \in DOMAIN config : Cardinality(CallsFor(k, {"update"})) = 1
        /\ \A i \in CallIdx : calls[i].op # "create"

----------------------------------------------------------------------------
(* C11 *)

\* the last call is a create or an update that the provider answered
MutationReplied ==
    /\ calls # << >>
    /\ Last(calls).op \in MutatingOps
    /\ ~reply.transport

\* C11: a create or an update that is answered with success == false fails
\* with ProviderApiError, whatever the errors and the result of the reply
\* are; it fails with MissingResult exactly when the reply has success ==
\* true and no result; it returns the record only when success == true and
\* the result is present.
MutationFailsOnFailureReply ==
    MutationReplied =>
        /\ ~reply.success => (~Last(calls).ok /\ error = Some("ProviderApiError"))
        /\ error = Some("MissingResult") <=> (reply.success /\ reply.result = None)
        /\ Last(calls).ok => (reply.success /\ IsSome(reply.result))

----------------------------------------------------------------------------
(* C12 *)

\* the last call is a list that returned a non-empty sequence whose first
\* element carries no id
ListedWithoutId ==
    /\ calls # << >>
    /\ Last(calls).op = "list"
    /\ Last(calls).ok
    /\ IsSome(reply.result)
    /\ Unwrap(reply.result) # << >>
    /\ Unwrap(reply.result)[1].id = None

\* C12: whenever the list returns a non-empty sequence whose first element
\* carries no id, the processing of that record fails (the run ends there
\* with an error, the abort on the missing id counted as one) and no update
\* is issued, whether or not the content of that element equals the
\* observed address.
MissingIdFails ==
    ListedWithoutId => pc \in {"failed", "panicked"}

----------------------------------------------------------------------------
(* C13 *)

\* the token is one of the pieces of a text
TokenIn(text) == \E j \in DOMAIN text : text[j] = api_token

\* a request addressed to the provider's records endpoint
ToProvider(req) ==
    /\ Len(req.url) >= Len(RecordsUrl)
    /\ SubSeq(req.url, 1, Len(RecordsUrl)) = RecordsUrl

\* C13: in every run, up to any step and however it ends, no line the
\* program prints (progress line or error message) contains the API token,
\* and of a request only the Authorization header of a provider request
\* carries it: not the url, the query or the body, and no header of a
\* request to the echo service.
TokenConfidential ==
    /\ \A i \in DOMAIN out : ~TokenIn(out[i])
    /\ ~TokenIn(request.url)
    /\ ~TokenIn(request.query)
    /\ IsSome(request.body) =>
            LET b == Unwrap(request.body) IN
            b.name # api_token /\ b.type # api_token /\ ~TokenIn(b.content)
    /\ \A h \in DOMAIN request.headers :
            /\ ToProvider(request)
            /\ TokenIn(request.headers[h]) => h = "Authorization"
    /\ ToProvider(request) => TokenIn(request.headers.Authorization)

\* a provider request that carried the token was answered with errors, and
\* the run ended printing them
TokenConfidentialWitness ==
    /\ pc = "failed"
    /\ error = Some("ProviderApiError")
    /\ request.method = "PATCH"
    /\ TokenIn(request.headers.Authorization)
    /\ \E i \in DOMAIN out : \E j \in DOMAIN out[i] : out[i][j] = "Unauthorized"

----------------------------------------------------------------------------
(* C14 *)

\* the last request is a create or an update
MutationSent == request.method \in {"POST", "PATCH"}

\* the record the last update targeted, as the zone has it now
Targeted == CHOOSE i \in DOMAIN zone : zone[i].id = Last(calls).id

\* C14: the body of every create and of every update request carries
\* ttl = 1 and proxied = false and has no id field, and after an update
\* the provider applied, the targeted record has ttl 1 and proxied false
\* whatever it had before.
BodyWritesDefaults ==
    /\ MutationSent =>
            LET b == Unwrap(request.body) IN
            /\ b.ttl = 1
            /\ b.proxied = FALSE
            /\ "id" \notin DOMAIN b
    /\ (calls # << >> /\ Last(calls).op = "update" /\ Applied(reply)) =>
            /\ zone[Targeted].ttl = Some(1)
            /\ zone[Targeted].proxied = Some(FALSE)

----------------------------------------------------------------------------
(* C15 *)

\* C15 as stated: an update changes the content of the existing record
\* only; its name, type, ttl and proxied are the same after the update as
\* before it.
UpdateContentOnly ==
    [][pc = "update" =>
        /\ DOMAIN zone' = DOMAIN zone
        /\ \A i \in DOMAIN zone : zone'[i] = [zone[i] EXCEPT !.content = zone'[i].content]
      ]_vars

\* the existing record as an update leaves it
Updated(record, ip) ==
    [record EXCEPT !.content = ip, !.ttl = Some(1), !.proxied = Some(FALSE)]

\* C15: an update leaves the id, the name and the type of the existing
\* record as they were and sets its content to the observed address; ttl
\* and proxied are not kept, they become 1 and false. An update the
\* provider applies does change the record it targets in this way.
UpdateKeepsIdentity ==
    [][pc = "update" =>
        /\ DOMAIN zone' = DOMAIN zone
        /\ \A i \in DOMAIN zone :
                zone'[i] # zone[i] => zone'[i] = Updated(zone[i], current_ip)
        /\ Applied(reply') =>
                \E i \in DOMAIN zone :
                    /\ zone[i].id = existing_records[1].id
                    /\ zone'[i] = Updated(zone[i], current_ip)
      ]_vars

\* an update was applied to a record that had ttl 300 and was proxied
UpdateKeepsIdentityWitness ==
    /\ calls # << >>
    /\ Last(calls).op = "update"
    /\ Applied(reply)
    /\ \E i \in DOMAIN zone0 :
            /\ zone0[i].id = Last(calls).id
            /\ zone0[i].ttl = Some(300)
            /\ zone0[i].proxied = Some(TRUE)
            /\ zone[i] = Updated(zone0[i], Last(calls).content)

----------------------------------------------------------------------------
(* C16 *)

\* the records of the zone a step added or changed
Touched == {i \in DOMAIN zone' : i \notin DOMAIN zone \/ zone'[i] # zone[i]}

\* C16: a step changes at most one record of the zone. An update changes
\* no record but the first of those the list returned, in the order
\* returned: further records of the same name and type and the records of
\* other names or types stay as they are. A create changes no record that
\* exists. No step deletes a record: every record stays in the zone under
\* its id.
OneRecordPerStep ==
    [][/\ Len(zone') >= Len(zone)
       /\ \A i \in DOMAIN zone : zone'[i].id = zone[i].id
       /\ Cardinality(Touched) <= 1
       /\ pc = "update" =>
            LET rc == config[idx] IN
            Touched \subseteq
                {i \in DOMAIN zone : zone[i].id = Matching(zone, rc.name, rc.record_type)[1].id}
       /\ pc = "create" => Touched \cap DOMAIN zone = {}
       /\ pc \notin {"update", "create"} => zone' = zone
      ]_vars

\* an update was applied to the first of two records of the same name and
\* type; the second, whose content differs from the address as well, is as
\* it was
OneRecordPerStepWitness ==
    /\ calls # << >>
    /\ Last(calls).op = "update"
    /\ Applied(reply)
    /\ Len(zone) = 2
    /\ zone[1].name = zone[2].name
    /\ zone[1].record_type = zone[2].record_type
    /\ zone[1] # zone0[1]
    /\ zone[2] = zone0[2]
    /\ zone[2].content # Last(calls).content

----------------------------------------------------------------------------
(* C17 *)

AllWhitespace(text) == \A j \in DOMAIN text : text[j] \in Whitespace

\* ip is what is left of body when the whitespace around it is taken away
IsStripped(body, ip) ==
    /\ ip # << >>
    /\ ip[1] \notin Whitespace
    /\ ip[Len(ip)] \notin Whitespace
    /\ \E k \in 0..(Len(body) - Len(ip)) :
            /\ SubSeq(body, k + 1, k + Len(ip)) = ip
            /\ \A j \in DOMAIN body : (j <= k \/ j > k + Len(ip)) => body[j] \in Whitespace

\* the last call is a probe the echo service answered
ProbeReplied ==
    /\ calls # << >>
    /\ Last(calls).op = "probe"
    /\ ~reply.transport

\* a probe answered with a body of whitespace only fails with EmptyResponse
\* and ends the run there; any other body gives the body without the
\* whitespace around it, which is not empty
ProbeStrips ==
    ProbeReplied =>
        IF AllWhitespace(reply.body)
        THEN ~Last(calls).ok /\ pc = "failed" /\ error = Some("EmptyResponse")
        ELSE /\ Last(calls).ok
             /\ pc = "list"
             /\ current_ip = Last(calls).content
             /\ IsStripped(reply.body, current_ip)

\* the probe was answered with a padded body, and the list that follows
\* returns a first record whose content is that body without the padding
PaddedBodyMatches ==
    /\ pc = "list"
    /\ ProbeReplied
    /\ reply.body # current_ip
    /\ Last(calls').op = "list"
    /\ Last(calls').first = Some(current_ip)

\* C17: the address the probe returns is the body of the reply with the
\* surrounding whitespace stripped and is never empty: a body that is empty
\* after trimming fails with EmptyResponse before any provider request. So
\* a body that differs from the content of the first listed record only by
\* surrounding whitespace yields no mutation: the record is found up to
\* date.
WhitespaceStripped ==
    /\ []ProbeStrips
    /\ [][PaddedBodyMatches => (zone' = zone /\ pc' \in {"probe", "done"})]_vars

\* the probe was answered with the address padded with blanks and a line
\* end, and the first matching record of the zone holds that address
WhitespaceStrippedWitness ==
    /\ pc = "list"
    /\ ProbeReplied
    /\ reply.body = <<SP, SP>> \o current_ip \o <<CR, LF>>
    /\ Matching(zone, config[idx].name, config[idx].record_type) # << >>
    /\ Matching(zone, config[idx].name, config[idx].record_type)[1].content = current_ip

----------------------------------------------------------------------------
(* C18 *)

\* a failed call is the last call of the run, which has ended; each
\* record_config has had at most one probe, one list and one create or
\* update, so a run makes at most three calls per record_config
NoRetry ==
    /\ \A i \in CallIdx : ~calls[i].ok => (i = Len(calls) /\ Ended)
    /\ \A k \in DOMAIN config :
            /\ Cardinality(CallsFor(k, {"probe"})) <= 1
            /\ Cardinality(CallsFor(k, {"list"})) <= 1
            /\ Cardinality(CallsFor(k, MutatingOps)) <= 1
    /\ Len(calls) <= 3 * Len(config)

\* C18: every call is attempted once and any failure ends the run: after
\* the first failing call (probe, list, create or update) no request is
\* made, neither the failed call again nor a later step of the same
\* record_config; each record_config causes at most one probe, one list and
\* one create or update; and every run, its calls being answered, comes to
\* an end.
SingleAttempt ==
    /\ []NoRetry
    /\ <>Ended

\* a list failed for a record_config that is not the last one, and the run
\* ended there
SingleAttemptWitness ==
    /\ pc = "failed"
    /\ calls # << >>
    /\ Last(calls).op = "list"
    /\ ~Last(calls).ok
    /\ idx < Len(config)

----------------------------------------------------------------------------
(* C19 *)

\* C19: a run creates exactly one HTTP client and sends every request
\* (probe, list, create, update) with it, so the number of clients created
\* does not grow with the number of record_configs processed.
OneClient ==
    /\ pc # "start" => nclients = 1
    /\ request # NoRequest => request.client = 1

----------------------------------------------------------------------------
(* C20 *)

\* C20: in one run at most one create or update is issued for a name and
\* type, however many record_configs declare them: once a record_config has
\* been reconciled, every later one of the same name and type finds the
\* record up to date (the address being the same throughout the run).
OneMutationPerNameAndType ==
    \A i, j \in MutatingCalls :
        (calls[i].name = calls[j].name /\ calls[i].record_type = calls[j].record_type)
            => i = j

====
